---- MODULE Spec2Model ----
(***************************************************************************)
(* vue-fetchable, src/fetchers/axios.ts.                                   *)
(*                                                                         *)
(* Two parts of the file are modelled:                                     *)
(*   - request(config): the wrapper around axiosInstance.request that      *)
(*     throws a BackendFetchError when the response body says              *)
(*     success = false (specification SpecValidator);                      *)
(*   - hookFetch(fetchFn, auto): the reactive record {data, request, err,  *)
(*     fetch} and its fetchData closure (specification Spec).              *)
(*                                                                         *)
(* JavaScript values are records tagged by "t", so that values of          *)
(* different types can be compared.  The result of evaluating a piece of   *)
(* code is a completion: it either returns a value or throws one.          *)
(***************************************************************************)
EXTENDS Naturals, Sequences, FiniteSets, TLC

\* How many times fetchData is invoked in one behaviour (the automatic
\* invocation included).
MaxCalls == 3

VARIABLES
  constructed,  \* hookFetch has been called and has returned
  auto,         \* the auto argument hookFetch was called with
  data,         \* the reactive record of hookFetch: data, request, err, fetch
  calls,        \* one entry per invocation of fetchData, in invocation order
  jobs,         \* microtask queue: invocations whose await has a settled promise
  fetchFnCalls, \* how many times fetchFn has been invoked
  transport,    \* request(): the completion of axiosInstance.request(config)
  returned      \* request(): the completion of request(config), once settled

vars == <<constructed, auto, data, calls, jobs, fetchFnCalls, transport, returned>>

----------------------------------------------------------------------------
(* JavaScript values *)

Null      == [t |-> "null"]
Undefined == [t |-> "undefined"]
True      == [t |-> "boolean", b |-> TRUE]
False     == [t |-> "boolean", b |-> FALSE]
Str(s)    == [t |-> "string", s |-> s]
Num(n)    == [t |-> "number", n |-> n]

\* ToBoolean: the falsy values are undefined, null, false, "", 0.
Truthy(v) ==
  CASE v.t \in {"null", "undefined"} -> FALSE
    [] v.t = "boolean" -> v.b
    [] v.t = "string" -> v.s # ""
    [] v.t = "number" -> v.n # 0
    [] OTHER -> TRUE

\* ToString, for the primitive values the model uses.
JSToString(v) ==
  CASE v.t = "string" -> v
    [] v.t = "number" -> Str(ToString(v.n))
    [] v.t = "boolean" -> Str(IF v.b THEN "true" ELSE "false")
    [] v.t = "null" -> Str("null")
    [] v.t = "undefined" -> Str("undefined")
    [] OTHER -> Str("[object Object]")

(* Completions *)
Return(v) == [kind |-> "return", value |-> v]
Throw(v)  == [kind |-> "throw", value |-> v]
TypeError == [t |-> "TypeError"]

\* v.f : reading a property of undefined or null throws a TypeError, a
\* property the value does not have reads as undefined.
Get(v, f) ==
  IF v.t \in {"null", "undefined"} THEN Throw(TypeError)
  ELSE IF f \in DOMAIN v THEN Return(v[f])
  ELSE Return(Undefined)

----------------------------------------------------------------------------
(* request(config) and BackendFetchError *)

\* An ErrorDescription of the response spec; a missing field is Undefined.
ErrorDescription(message, code) ==
  [t |-> "ErrorDescription", message |-> message, code |-> code]

\* The body of a backend response; a missing field is Undefined.
Body(success, payload, error) ==
  [t |-> "body", success |-> success, data |-> payload, error |-> error]

AxiosResponse(body) == [t |-> "AxiosResponse", data |-> body, status |-> 200]

\* A transport-level failure: axiosInstance.request rejects.
AxiosError == [t |-> "AxiosError"]

\* Faulty variant of NewBackendFetchError: super() is called without the
\* message.  C8 does not hold of it.
NewBackendFetchErrorNoMessage(error, res) ==
  LET m == Get(error, "message") IN
  IF m.kind = "throw" THEN m
  ELSE Return([t |-> "BackendFetchError",
               name |-> "BackendFetchError",
               message |-> Str(""),
               error |-> error,
               res |-> res])

\* new BackendFetchError(error, res): super(error.message) reads the message
\* (throwing a TypeError when error is undefined); Error(message) leaves the
\* message "" when it is undefined and converts it to a string otherwise.
NewBackendFetchError(error, res) ==
  LET m == Get(error, "message") IN
  IF m.kind = "throw" THEN m
  ELSE Return([t |-> "BackendFetchError",
               name |-> "BackendFetchError",
               message |-> IF m.value = Undefined THEN Str("")
                           ELSE JSToString(m.value),
               error |-> error,
               res |-> res])

\* Faulty variant of request: it returns the payload of the body instead of
\* the response.  The amended C9 does not hold of it.
requestUnwrapped(settled) ==
  IF settled.kind = "throw" THEN settled
  ELSE
    LET req == settled.value
        body == Get(req, "data").value
        success == Get(body, "success")
    IN IF success.kind = "throw" THEN success
       ELSE IF ~Truthy(success.value)
         THEN LET e == NewBackendFetchError(Get(body, "error").value, req)
              IN IF e.kind = "throw" THEN e ELSE Throw(e.value)
         ELSE Get(body, "data")

\* request(config), given the completion of axiosInstance.request(config).
request(settled) ==
  IF settled.kind = "throw" THEN settled
  ELSE
    LET req == settled.value
        body == Get(req, "data").value
        success == Get(body, "success")
    IN IF success.kind = "throw" THEN success
       ELSE IF ~Truthy(success.value)
         THEN LET e == NewBackendFetchError(Get(body, "error").value, req)
              IN IF e.kind = "throw" THEN e ELSE Throw(e.value)
         ELSE Return(req)

----------------------------------------------------------------------------
(* Inputs *)

Payload(id) == [t |-> "payload", id |-> id]
Payloads == {Payload(1), Payload(2)}

Messages == {Str("not found"), Str("denied"), Num(404), Undefined}
Codes == {Num(404), Num(500)}
ErrorDescriptions == {ErrorDescription(m, c) : m \in Messages, c \in Codes}

\* Every body the backend can send, well-formed or not, and no body at all.
Bodies ==
  {Body(s, p, e) : s \in {True, False, Undefined},
                   p \in Payloads \cup {Undefined},
                   e \in ErrorDescriptions \cup {Undefined}}
    \cup {Undefined}

\* What axiosInstance.request(config) settles with.
TransportOutcomes ==
  {Return(AxiosResponse(b)) : b \in Bodies} \cup {Throw(AxiosError)}

NotFound == ErrorDescription(Str("not found"), Num(404))

\* What the promise of fetchFn() settles with: the result of request(config)
\* for a successful, a failed and a data-less response and for a transport
\* failure; the boolean false; a value that is no response.
ProducerOutcomes ==
  {request(Return(AxiosResponse(Body(True, p, Undefined)))) : p \in Payloads}
    \cup {request(Return(AxiosResponse(Body(False, Undefined, NotFound)))),
          request(Return(AxiosResponse(Body(True, Undefined, Undefined)))),
          request(Throw(AxiosError)),
          Return(False),
          Return(True)}

----------------------------------------------------------------------------
(* hookFetch(fetchFn, auto) *)

Fn(name) == [t |-> "function", name |-> name]

\* reactiveFetch(data, defaultFetch): {...data, fetch: defaultFetch}.
reactiveFetch(d, defaultFetch) == [fetch |-> defaultFetch] @@ d

\* The record hookFetch creates and binds fetchData to; reactiveFetch is
\* called without defaultFetch, whose default is null.
hookFetchRecord ==
  LET rec == reactiveFetch([data |-> Null, request |-> Fn("stub"), err |-> Null],
                           Null)
  IN [rec EXCEPT !.request = Fn("fetchData")]

\* Faulty variant of fetchDataCall: data.data is not reset.  C5 does not
\* hold of it.
fetchDataCallNoReset(rec) == [data |-> rec, seen |-> rec.data]

\* Variant of fetchDataCall that also puts fetch back to null ("in
\* progress").  C13 and C16 do not hold of it.
fetchDataCallResetsFetch(rec) ==
  LET reset == [rec EXCEPT !.data = Null, !.fetch = Null]
  IN [data |-> reset, seen |-> reset.data]

\* Variant of fetchDataCall that also clears err.  C17 does not hold of it.
fetchDataCallResetsErr(rec) ==
  LET reset == [rec EXCEPT !.data = Null, !.err = Null]
  IN [data |-> reset, seen |-> reset.data]

\* fetchData up to its await: data.data = null, then fetchFn() is called;
\* seen is the value of data.data that fetchFn finds.
fetchDataCall(rec) ==
  LET reset == [rec EXCEPT !.data = Null]
  IN [data |-> reset, seen |-> reset.data]

Fulfilled(v) == [state |-> "fulfilled", value |-> v]
Rejected(v)  == [state |-> "rejected", value |-> v]
PendingPromise == [state |-> "pending"]
NotSettled == [kind |-> "pending"]

\* Faulty variant of fetchDataCatch: the error is not recorded.  C2 does not
\* hold of it.
fetchDataCatchNoErr(rec, error) ==
  [data |-> [rec EXCEPT !.fetch = False], promise |-> Fulfilled(Undefined)]

\* Faulty variant of fetchDataCatch: the error is recorded and thrown again.
\* C4 does not hold of it.
fetchDataCatchRethrow(rec, error) ==
  [data |-> [rec EXCEPT !.fetch = False, !.err = error],
   promise |-> Rejected(error)]

\* The catch block: data.fetch = false; data.err = error.  The function then
\* ends normally, so its promise is fulfilled with undefined.
fetchDataCatch(rec, error) ==
  [data |-> [rec EXCEPT !.fetch = False, !.err = error],
   promise |-> Fulfilled(Undefined)]

\* Faulty variant of fetchDataResume: data.data = res.data, one level short.
\* C1 does not hold of it.
fetchDataResumeShallow(rec, settled) ==
  IF settled.kind = "throw" THEN fetchDataCatch(rec, settled.value)
  ELSE
    LET res == settled.value IN
    IF ~Truthy(res)
      THEN [data |-> [rec EXCEPT !.fetch = False], promise |-> Fulfilled(False)]
      ELSE
        LET fetched == [rec EXCEPT !.fetch = True]
            body == Get(res, "data")
        IN [data |-> [fetched EXCEPT !.data = body.value],
            promise |-> Fulfilled(Undefined)]

\* Variant of fetchDataResume that clears err when the producer returned a
\* falsy value.  The amended C3 does not hold of it.
fetchDataResumeAbortClearsErr(rec, settled) ==
  IF settled.kind = "throw" THEN fetchDataCatch(rec, settled.value)
  ELSE
    LET res == settled.value IN
    IF ~Truthy(res)
      THEN [data |-> [rec EXCEPT !.fetch = False, !.err = Null],
            promise |-> Fulfilled(False)]
      ELSE
        LET fetched == [rec EXCEPT !.fetch = True]
            body == Get(res, "data")
            payload == Get(body.value, "data")
        IN IF payload.kind = "throw" THEN fetchDataCatch(fetched, payload.value)
           ELSE [data |-> [fetched EXCEPT !.data = payload.value],
                 promise |-> Fulfilled(Undefined)]

\* Faulty variant of fetchDataResume: a falsy result is recorded as a
\* failure, through the catch block.  C14 does not hold of it.
fetchDataResumeAbortAsError(rec, settled) ==
  IF settled.kind = "throw" THEN fetchDataCatch(rec, settled.value)
  ELSE
    LET res == settled.value IN
    IF ~Truthy(res)
      THEN fetchDataCatch(rec, [t |-> "Error"])
      ELSE
        LET fetched == [rec EXCEPT !.fetch = True]
            body == Get(res, "data")
            payload == Get(body.value, "data")
        IN IF payload.kind = "throw" THEN fetchDataCatch(fetched, payload.value)
           ELSE [data |-> [fetched EXCEPT !.data = payload.value],
                 promise |-> Fulfilled(Undefined)]

\* Faulty variant of fetchDataResume: res.data.data is read after the try
\* block, so its TypeError is not caught.  C15 does not hold of it.
fetchDataResumeUnwrapUncaught(rec, settled) ==
  IF settled.kind = "throw" THEN fetchDataCatch(rec, settled.value)
  ELSE
    LET res == settled.value IN
    IF ~Truthy(res)
      THEN [data |-> [rec EXCEPT !.fetch = False], promise |-> Fulfilled(False)]
      ELSE
        LET fetched == [rec EXCEPT !.fetch = True]
            body == Get(res, "data")
            payload == Get(body.value, "data")
        IN IF payload.kind = "throw"
             THEN [data |-> fetched, promise |-> Rejected(payload.value)]
             ELSE [data |-> [fetched EXCEPT !.data = payload.value],
                   promise |-> Fulfilled(Undefined)]

\* fetchData from its await on, given what the promise of fetchFn() settled
\* with.  (The development-only console.log does not touch the record.)
fetchDataResume(rec, settled) ==
  IF settled.kind = "throw" THEN fetchDataCatch(rec, settled.value)
  ELSE
    LET res == settled.value IN
    IF ~Truthy(res)
      THEN [data |-> [rec EXCEPT !.fetch = False], promise |-> Fulfilled(False)]
      ELSE
        LET fetched == [rec EXCEPT !.fetch = True]
            body == Get(res, "data")
            payload == Get(body.value, "data")
        IN IF payload.kind = "throw" THEN fetchDataCatch(fetched, payload.value)
           ELSE [data |-> [fetched EXCEPT !.data = payload.value],
                 promise |-> Fulfilled(Undefined)]

----------------------------------------------------------------------------
(* Actions *)

NoTransport == [kind |-> "none"]

Init ==
  /\ constructed = FALSE
  /\ auto \in BOOLEAN
  /\ data = Undefined
  /\ calls = <<>>
  /\ jobs = <<>>
  /\ fetchFnCalls = 0
  /\ transport = NoTransport
  /\ returned = NotSettled

\* One invocation of fetchData on record rec, up to its await.
Invoke(rec) ==
  LET c == fetchDataCall(rec) IN
  /\ data' = c.data
  /\ calls' = Append(calls, [st |-> "pending", out |-> NotSettled,
                             seen |-> c.seen, promise |-> PendingPromise])
  /\ fetchFnCalls' = fetchFnCalls + 1

\* Faulty variant of HookFetch: fetchData is invoked whatever auto is.  C6
\* does not hold of it.
HookFetchIgnoreAuto ==
  /\ ~constructed
  /\ constructed' = TRUE
  /\ Invoke(hookFetchRecord)
  /\ UNCHANGED <<auto, jobs, transport, returned>>

\* hookFetch(fetchFn, auto) is called and returns.
HookFetch ==
  /\ ~constructed
  /\ constructed' = TRUE
  /\ IF auto THEN Invoke(hookFetchRecord)
     ELSE data' = hookFetchRecord /\ UNCHANGED <<calls, fetchFnCalls>>
  /\ UNCHANGED <<auto, jobs, transport, returned>>

\* Variant of Request with a re-entrancy guard: while a producer is pending,
\* data.request() returns without calling fetchFn.  C10 does not hold of it.
RequestGuarded ==
  /\ constructed
  /\ Len(calls) < MaxCalls
  /\ IF \E i \in 1..Len(calls) : calls[i].st = "pending"
       THEN /\ calls' = Append(calls, [st |-> "done", out |-> NotSettled,
                                       seen |-> data.data,
                                       promise |-> Fulfilled(Undefined)])
            /\ UNCHANGED <<data, fetchFnCalls>>
       ELSE Invoke(data)
  /\ UNCHANGED <<constructed, auto, jobs, transport, returned>>

\* Some code calls data.request().
Request ==
  /\ constructed
  /\ Len(calls) < MaxCalls
  /\ Invoke(data)
  /\ UNCHANGED <<constructed, auto, jobs, transport, returned>>

\* The promise of invocation i's fetchFn() settles; the rest of fetchData
\* is queued as a microtask.
ProducerSettle(i, out) ==
  /\ calls[i].st = "pending"
  /\ calls' = [calls EXCEPT ![i].st = "settled", ![i].out = out]
  /\ jobs' = Append(jobs, i)
  /\ UNCHANGED <<constructed, auto, data, fetchFnCalls, transport, returned>>

\* Variant of Resume that drops the result of every invocation but the one
\* invoked last.  C11 does not hold of it.
ResumeLatestOnly ==
  /\ jobs # <<>>
  /\ LET i == Head(jobs)
         r == fetchDataResume(data, calls[i].out)
     IN /\ data' = IF i = Len(calls) THEN r.data ELSE data
        /\ calls' = [calls EXCEPT ![i].st = "done", ![i].promise = r.promise]
  /\ jobs' = Tail(jobs)
  /\ UNCHANGED <<constructed, auto, fetchFnCalls, transport, returned>>

\* The first queued microtask runs: fetchData goes on from its await to its
\* end, and its promise settles.
Resume ==
  /\ jobs # <<>>
  /\ LET i == Head(jobs)
         r == fetchDataResume(data, calls[i].out)
     IN /\ data' = r.data
        /\ calls' = [calls EXCEPT ![i].st = "done", ![i].promise = r.promise]
  /\ jobs' = Tail(jobs)
  /\ UNCHANGED <<constructed, auto, fetchFnCalls, transport, returned>>

Next ==
  \/ HookFetch
  \/ Request
  \/ \E i \in 1..Len(calls), out \in ProducerOutcomes : ProducerSettle(i, out)
  \/ Resume

Spec == Init /\ [][Next]_vars

----------------------------------------------------------------------------
(* request(config) on its own *)

InitValidator ==
  /\ constructed = FALSE
  /\ auto = TRUE
  /\ data = Undefined
  /\ calls = <<>>
  /\ jobs = <<>>
  /\ fetchFnCalls = 0
  /\ transport \in TransportOutcomes
  /\ returned = NotSettled

\* axiosInstance.request(config) has settled with transport; request(config)
\* goes on from its await and settles.
RequestSettle ==
  /\ returned = NotSettled
  /\ returned' = request(transport)
  /\ UNCHANGED <<constructed, auto, data, calls, jobs, fetchFnCalls, transport>>

NextValidator == RequestSettle

SpecValidator == InitValidator /\ [][NextValidator]_vars

----------------------------------------------------------------------------
(* Vocabulary of the properties *)

Invocations == 1..Len(calls)

\* The outcome of a producer that resolves with a well-formed successful
\* response carrying payload p.
Resolved(p) == Return(AxiosResponse(Body(True, p, Undefined)))

\* This step is invocation i going on from its await to its end.
Resumes(i) == jobs # <<>> /\ Head(jobs) = i /\ jobs' = Tail(jobs)

\* This step is a new invocation of fetchData.
Invokes == Len(calls') = Len(calls) + 1

----------------------------------------------------------------------------
(* C1 *)

\* C1: if every invocation's producer resolved successfully with the same
\* payload p, then in any state where at least one invocation was made and
\* every invocation made has run to its end, fetch = true, data = p and
\* err = null.
C1_AlwaysResolvedYieldsPayload ==
  \A p \in Payloads :
    (/\ constructed
     /\ Len(calls) >= 1
     /\ \A i \in Invocations : calls[i].st = "done" /\ calls[i].out = Resolved(p))
    => data.fetch = True /\ data.data = p /\ data.err = Null

C1_Witness ==
  /\ constructed
  /\ Len(calls) >= 2
  /\ \A i \in Invocations : calls[i].st = "done" /\ calls[i].out = Resolved(Payload(2))
  /\ data.data = Payload(2)

----------------------------------------------------------------------------
(* C2 *)

\* C2: if every producer that has settled so far threw, then the step in
\* which an invocation runs to its end leaves fetch = false, data = null and
\* err = the value that invocation's producer threw.
C2_AlwaysThrowsYieldsErr ==
  [][\A i \in Invocations :
       (/\ Resumes(i)
        /\ \A j \in Invocations : calls[j].out.kind \in {"throw", "pending"})
       => /\ data'.fetch = False
          /\ data'.data = Null
          /\ data'.err = calls[i].out.value]_vars

C2_Witness ==
  /\ constructed
  /\ Len(calls) >= 2
  /\ \A j \in Invocations : calls[j].out.kind = "throw"
  /\ calls[1].st = "done" /\ calls[2].st = "done"
  /\ calls[1].out.value # calls[2].out.value
  /\ data.fetch = False /\ data.data = Null
  /\ data.err \in {calls[1].out.value, calls[2].out.value}

----------------------------------------------------------------------------
(* C3 *)

\* C3, as stated: whatever earlier or overlapping invocations did, the step
\* in which an invocation whose producer returned false runs to its end
\* leaves fetch = false, data = null and err = null.
C3_AbortYieldsNulls ==
  [][\A i \in Invocations :
       (Resumes(i) /\ calls[i].out = Return(False))
       => data'.fetch = False /\ data'.data = Null /\ data'.err = Null]_vars

\* C3, amended: the step in which an invocation whose producer returned false
\* runs to its end sets fetch = false and leaves data and err as they were
\* just before it; they are both null when every invocation that ran to its
\* end before it had a producer that returned false too.
C3_AbortSetsFetchOnly ==
  [][\A i \in Invocations :
       (Resumes(i) /\ calls[i].out = Return(False))
       => /\ data'.fetch = False
          /\ data'.data = data.data
          /\ data'.err = data.err
          /\ (\A j \in Invocations :
                calls[j].st = "done" => calls[j].out = Return(False))
             => data'.data = Null /\ data'.err = Null]_vars

\* An invocation whose producer returned false has run to its end, after one
\* whose producer threw: err still holds the thrown value.
C3_Witness ==
  /\ constructed
  /\ \E i, j \in Invocations :
       /\ j < i
       /\ calls[j].st = "done" /\ calls[j].out.kind = "throw"
       /\ calls[i].st = "done" /\ calls[i].out = Return(False)
       /\ data.err = calls[j].out.value
  /\ data.fetch = False

----------------------------------------------------------------------------
(* C4 *)

\* C4: the promise of an invocation is never rejected; it is fulfilled
\* exactly when the invocation has run to its end, in the step that runs it
\* from its await to its end: the producer had settled before that step, and
\* the step made the writes of the producer's outcome (fetch = false and
\* err = the thrown value after a throw, fetch = false after a falsy result,
\* fetch = true and data = the payload after a well-formed response).
C4_PromiseNeverRejects ==
  /\ [](\A i \in Invocations :
          /\ calls[i].promise.state # "rejected"
          /\ calls[i].promise.state = "fulfilled" <=> calls[i].st = "done")
  /\ [][\A i \in Invocations :
          (calls[i].promise.state = "pending"
             /\ calls'[i].promise.state # "pending")
          => /\ calls[i].st = "settled"
             /\ calls[i].out.kind \in {"return", "throw"}
             /\ calls'[i].promise.state = "fulfilled"
             /\ data'.fetch \in {True, False}
             /\ calls[i].out.kind = "throw"
                  => data'.fetch = False /\ data'.err = calls[i].out.value
             /\ calls[i].out = Return(False) => data'.fetch = False
             /\ \A p \in Payloads :
                  calls[i].out = Resolved(p)
                    => data'.fetch = True /\ data'.data = p]_vars

\* Three invocations have run to their ends, one whose producer threw, one
\* whose producer returned false and one whose producer resolved.
C4_Witness ==
  /\ constructed
  /\ \E i, j, k \in Invocations :
       /\ calls[i].out.kind = "throw"
       /\ calls[j].out = Return(False)
       /\ calls[k].out = Resolved(Payload(1))
       /\ \A n \in {i, j, k} : calls[n].promise.state = "fulfilled"

----------------------------------------------------------------------------
(* C5 *)

\* C5: every invocation of fetchData, whatever the record held, sets data to
\* null before it calls the producer (which finds data = null) and before
\* any result of that invocation is applied (the invocation is pending when
\* the step ends).
C5_RequestResetsDataFirst ==
  [][Invokes =>
       /\ data'.data = Null
       /\ calls'[Len(calls')].seen = Null
       /\ calls'[Len(calls')].st = "pending"
       /\ calls'[Len(calls')].out = NotSettled]_vars

\* The latest invocation is pending and has reset the data that an earlier
\* invocation had fetched, while fetch and err still hold earlier outcomes.
C5_Witness ==
  /\ constructed
  /\ Len(calls) = 3
  /\ calls[1].st = "done" /\ calls[1].out.kind = "throw"
  /\ calls[2].st = "done" /\ calls[2].out = Resolved(Payload(1))
  /\ calls[3].st = "pending"
  /\ data.data = Null /\ data.fetch = True /\ data.err # Null

----------------------------------------------------------------------------
(* C6 *)

\* C6: the step in which hookFetch is called and returns, with auto = true,
\* calls the producer exactly once and does not wait for it (the invocation
\* is pending), and leaves data = null, fetch = null and err = null, which
\* hold as long as that producer has not settled; with auto = false it does
\* not call the producer, and data = null, fetch = null and err = null hold
\* as long as fetchData has not been invoked.
C6_AutoStart ==
  /\ [][(~constructed /\ constructed') =>
          /\ data'.data = Null /\ data'.fetch = Null /\ data'.err = Null
          /\ auto => /\ fetchFnCalls' = 1
                     /\ Len(calls') = 1
                     /\ calls'[1].st = "pending"
                     /\ calls'[1].promise.state = "pending"
          /\ ~auto => fetchFnCalls' = 0 /\ Len(calls') = 0]_vars
  /\ [](constructed =>
          /\ (auto /\ Len(calls) = 1 /\ calls[1].st = "pending")
               => /\ data.data = Null /\ data.fetch = Null /\ data.err = Null
                  /\ fetchFnCalls = 1
          /\ Len(calls) = 0
               => /\ ~auto
                  /\ data.data = Null /\ data.fetch = Null /\ data.err = Null
                  /\ fetchFnCalls = 0
          /\ auto => Len(calls) >= 1)

\* hookFetch has just returned with auto = true: one producer is in flight.
C6_Witness ==
  /\ constructed /\ auto
  /\ Len(calls) = 1 /\ calls[1].st = "pending"
  /\ fetchFnCalls = 1
  /\ data.fetch = Null

----------------------------------------------------------------------------
(* C7, C8, C9: request(config), under SpecValidator *)

\* The transport resolved with a response that has a body.
HasBody == transport.kind = "return" /\ transport.value.data # Undefined

\* The body lacks success, or has success = true without data, or has
\* success = false without error.
MalformedBody(b) ==
  \/ b.success = Undefined
  \/ b.success = True /\ b.data = Undefined
  \/ b.success = False /\ b.error = Undefined

\* success = false with an error description whose message is a string.
FailureBody(b) ==
  /\ b.success = False
  /\ b.error # Undefined
  /\ b.error.message.t = "string"

\* success = true with data present (and no error).
SuccessBody(b) ==
  /\ b.success = True
  /\ b.data # Undefined
  /\ b.error = Undefined

\* C7: for every malformed body the transport returns, request throws and
\* never returns a value.
C7_MalformedBodyThrows ==
  (returned # NotSettled /\ HasBody /\ MalformedBody(transport.value.data))
    => returned.kind = "throw"

\* C8: for every body with success = false and an error description, request
\* throws a BackendFetchError whose message is the description's message and
\* whose error field is the description (and whose res is the response); it
\* does not return.
C8_FailureThrowsBackendFetchError ==
  (returned # NotSettled /\ HasBody /\ FailureBody(transport.value.data))
    => /\ returned.kind = "throw"
       /\ returned.value.t = "BackendFetchError"
       /\ returned.value.name = "BackendFetchError"
       /\ returned.value.message = transport.value.data.error.message
       /\ returned.value.error = transport.value.data.error
       /\ returned.value.res = transport.value

C8_Witness ==
  /\ returned.kind = "throw"
  /\ HasBody /\ FailureBody(transport.value.data)
  /\ returned.value.message = Str("denied")

----------------------------------------------------------------------------
(* C10 *)

\* C10: every invocation of fetchData calls the producer, whether or not an
\* earlier producer is still pending: the number of producer calls equals the
\* number of invocations in every state, each invocation step adds one
\* producer call and one pending invocation, and fetchData can be invoked
\* while producers are pending.
C10_NoReentrancyGuard ==
  /\ [](fetchFnCalls = Len(calls))
  /\ [][Invokes =>
          /\ fetchFnCalls' = fetchFnCalls + 1
          /\ calls'[Len(calls')].st = "pending"]_vars
  /\ []((constructed /\ Len(calls) < MaxCalls) => ENABLED Request)

\* Two producers are in flight at once.
C10_Witness ==
  /\ constructed
  /\ \E i, j \in Invocations :
       i # j /\ calls[i].st = "pending" /\ calls[j].st = "pending"
  /\ fetchFnCalls >= 2

----------------------------------------------------------------------------
(* C11 *)

\* The producer's outcome is a response: fetchData stores res.data.data.
WritesData(out) == out.kind = "return" /\ out.value.t = "AxiosResponse"

\* The producer threw, or resolved with a truthy value without data.
WritesErr(out) ==
  \/ out.kind = "throw"
  \/ out.kind = "return" /\ Truthy(out.value) /\ out.value.t # "AxiosResponse"

ErrWritten(out) == IF out.kind = "throw" THEN out.value ELSE TypeError

\* C11: invocations run from their awaits to their ends in the order in
\* which their producers settled, whatever the order of invocation, and each
\* one writes over what the record holds: fetch takes its outcome, data its
\* payload if it resolved (and is left alone otherwise), err its failure if
\* it failed (and is left alone otherwise).  So when all have run, fetch is
\* the outcome of the invocation whose producer settled last, and data and
\* err are those of the latest invocation that wrote each of them.
C11_LastWriteWins ==
  /\ [][jobs' # jobs =>
          \/ jobs # <<>> /\ jobs' = Tail(jobs)
          \/ \E i \in Invocations :
               /\ calls[i].st = "pending" /\ calls'[i].st = "settled"
               /\ jobs' = Append(jobs, i)]_vars
  /\ [][\A i \in Invocations :
          Resumes(i) =>
            LET out == calls[i].out IN
            /\ data'.fetch = IF WritesData(out) THEN True ELSE False
            /\ data'.data = IF WritesData(out) THEN out.value.data.data
                            ELSE data.data
            /\ data'.err = IF WritesErr(out) THEN ErrWritten(out)
                           ELSE data.err]_vars

\* Two overlapping invocations have run to their ends: the one invoked last
\* threw and settled first, the one invoked first resolved and settled last.
\* fetch and data are those of the first, err is that of the second.
C11_Witness ==
  /\ constructed
  /\ Len(calls) = 2
  /\ calls[1].st = "done" /\ calls[1].out = Resolved(Payload(1))
  /\ calls[2].st = "done" /\ calls[2].out = Throw(AxiosError)
  /\ data.fetch = True /\ data.data = Payload(1) /\ data.err = AxiosError

----------------------------------------------------------------------------
(* C12 *)

SomePending == \E i \in Invocations : calls[i].st = "pending"

\* C12, as stated: in every state in which an invocation is pending, data is
\* null, so that no result is seen.  (The undefined that a response without
\* data leaves in data is counted as no result here, in the claim's favour.)
C12_PendingImpliesDataNull ==
  (constructed /\ SomePending) => data.data \in {Null, Undefined}

\* C12, amended: every invocation sets data to null when it starts, and data
\* stays null until an invocation whose producer resolved runs to its end.
\* So in a state in which an invocation is pending, data is null unless
\* another invocation has resolved since, and then data is that invocation's
\* payload.
C12_PendingDataNullOrOverlap ==
  /\ [][Invokes => data'.data = Null]_vars
  /\ [][(constructed /\ data.data = Null /\ data'.data # Null) =>
          \E i \in Invocations :
            /\ Resumes(i)
            /\ WritesData(calls[i].out)
            /\ data'.data = calls[i].out.value.data.data]_vars
  /\ []((constructed /\ SomePending /\ data.data # Null) =>
          \E i, j \in Invocations :
            /\ i # j
            /\ calls[j].st = "pending"
            /\ calls[i].st = "done" /\ WritesData(calls[i].out)
            /\ data.data = calls[i].out.value.data.data)

\* An invocation is pending and data holds the payload of another.
C12_Witness ==
  /\ constructed
  /\ Len(calls) = 2
  /\ calls[1].st = "done" /\ calls[1].out = Resolved(Payload(1))
  /\ calls[2].st = "pending"
  /\ data.data = Payload(1)

----------------------------------------------------------------------------
(* C13 *)

\* C13, as stated: as long as the producer of an invocation has not settled,
\* the record is as it was before that invocation: neither the step that
\* starts the invocation nor any later step changes data, fetch or err.
C13_PendingLeavesRecordAsBefore ==
  [][(constructed /\ \E i \in 1..Len(calls') : calls'[i].st = "pending")
       => data' = data]_vars

\* C13, amended: an invocation whose producer does not settle writes only
\* its reset: the step that starts it sets data to null and leaves fetch,
\* err and request as they were, and every other change of the record is
\* the reset of another invocation or the end of an invocation whose
\* producer has settled.  The record is not stuck: request can be invoked
\* again while the producer is pending, and that invocation can settle.
C13_PendingWritesOnlyReset ==
  /\ [][(constructed /\ Invokes) => data' = [data EXCEPT !.data = Null]]_vars
  /\ [][(constructed /\ data' # data) =>
          \/ Invokes
          \/ \E j \in Invocations :
               /\ Resumes(j)
               /\ calls[j].st = "settled"
               /\ calls[j].out.kind \in {"return", "throw"}]_vars
  /\ []((constructed /\ SomePending /\ Len(calls) < MaxCalls)
          => ENABLED Request)

\* The first invocation's producer has not settled; a later invocation has
\* resolved and the record shows its outcome.
C13_Witness ==
  /\ constructed
  /\ Len(calls) = 2
  /\ calls[1].st = "pending"
  /\ calls[2].st = "done" /\ calls[2].out = Resolved(Payload(2))
  /\ data.fetch = True /\ data.data = Payload(2) /\ data.err = Null

----------------------------------------------------------------------------
(* C14 *)

\* C14: the step in which an invocation whose producer returned false runs
\* to its end writes fetch = false and nothing else: data, err and request
\* are as before the step (no error is created), and fetchData returns the
\* false it assigned.
C14_AbortFrame ==
  [][\A i \in Invocations :
       (Resumes(i) /\ calls[i].out = Return(False))
       => /\ data' = [data EXCEPT !.fetch = False]
          /\ data'.request = Fn("fetchData")
          /\ calls'[i].promise = Fulfilled(False)]_vars

\* An invocation whose producer returned false has run to its end while
\* fetch was true and data held the payload of an overlapping invocation:
\* only fetch changed.
C14_Witness ==
  /\ constructed
  /\ Len(calls) = 2
  /\ calls[1].st = "done" /\ calls[1].out = Resolved(Payload(1))
  /\ calls[2].st = "done" /\ calls[2].out = Return(False)
  /\ data.fetch = False /\ data.data = Payload(1) /\ data.err = Null

----------------------------------------------------------------------------
(* C15 *)

\* The producer resolved with a truthy value that has no data to unwrap.
NoEnvelope(out) ==
  /\ out.kind = "return"
  /\ Truthy(out.value)
  /\ Get(out.value, "data").value = Undefined

\* C15: the step in which an invocation whose producer resolved with a
\* truthy value without data runs to its end fulfils the invocation's
\* promise and leaves fetch = false and err = the TypeError of the failed
\* unwrapping; fetch is not true after it, and data is not written.
C15_MalformedResponseIsCaught ==
  /\ [][\A i \in Invocations :
          (Resumes(i) /\ NoEnvelope(calls[i].out))
          => /\ calls'[i].promise = Fulfilled(Undefined)
             /\ calls'[i].st = "done"
             /\ data'.fetch = False
             /\ data'.err = TypeError
             /\ data'.data = data.data]_vars
  /\ [](\A i \in Invocations :
          (calls[i].st = "done" /\ NoEnvelope(calls[i].out))
          => calls[i].promise.state = "fulfilled")

\* An invocation whose producer resolved with such a value has run to its
\* end, after fetch was true.
C15_Witness ==
  /\ constructed
  /\ Len(calls) = 2
  /\ calls[1].st = "done" /\ calls[1].out = Resolved(Payload(1))
  /\ calls[2].st = "done" /\ NoEnvelope(calls[2].out)
  /\ calls[2].promise.state = "fulfilled"
  /\ data.fetch = False /\ data.err = TypeError

----------------------------------------------------------------------------
(* C16 *)

----------------------------------------------------------------------------
(* C17 *)

\* C17: no step writes null to err: once err is not null it is not null in
\* any later state, and a step changes err only by storing the failure of
\* the invocation that runs to its end in it.
C17_ErrNeverCleared ==
  /\ [][(constructed /\ data.err # Null) => data'.err # Null]_vars
  /\ [][(constructed /\ data'.err # data.err) =>
          \E i \in Invocations :
            /\ Resumes(i)
            /\ WritesErr(calls[i].out)
            /\ data'.err = ErrWritten(calls[i].out)]_vars
  /\ [](constructed =>
          (data.err = Null <=>
             \A i \in Invocations :
               calls[i].st = "done" => ~WritesErr(calls[i].out)))

\* After a producer threw, a later invocation resolved: fetch is true and
\* err still holds the value thrown.
C17_Witness ==
  /\ constructed
  /\ Len(calls) = 2
  /\ calls[1].st = "done" /\ calls[1].out.kind = "throw"
  /\ calls[2].st = "done" /\ calls[2].out = Resolved(Payload(1))
  /\ data.fetch = True /\ data.data = Payload(1)
  /\ data.err = calls[1].out.value /\ data.err # Null

====
